---------------------------- MODULE Spec2Model ----------------------------
(***************************************************************************)
(* Model of the BORE burst accounting engine (kernel/sched/bore.c) and of  *)
(* the SSS CPU placement heuristics (kernel/sched/sss.c).                  *)
(*                                                                         *)
(* TLC integers are 32 bit, so a u64 (burst_time, the clock, a cache       *)
(* timestamp) is a tuple of four 16-bit limbs, least significant first,    *)
(* and the 64-bit operations of the code (wrapping add and subtract, the   *)
(* shifts, fls64, the s64 sign test) are computed on the limbs.            *)
(***************************************************************************)
EXTENDS Integers, Sequences, FiniteSets, TLC

VARIABLES
    se,          \* task -> its burst record (struct sched_entity's BORE fields)
    exit_state,  \* task -> whether the task is exiting (host owned)
    clock,       \* the host's monotonic clock, a u64 of nanoseconds
    steps,       \* number of operations performed so far (bounds the burst model)
    last,        \* the last operation performed, its inputs and its result
    inh,         \* history: the latest burst inheritance call (which cache, when, what it returned)
    sched,       \* the scenario the host is driving: free calls, or a run of equal bursts
    pen,         \* inputs and results of the pure burst penalty calculator
    bank,        \* sss_rt_factor_bank: cpu -> its RT pressure accumulator (atomic_t)
    pending,     \* caller -> the bank call it has issued and not yet performed
    ledger,      \* history: the RT tasks enqueued per cpu and the sums of the bank calls issued
    sss,         \* sss_cpu_capacities, sss_hp_mask, sss_asymmetric as sched_sss_init left them
    host,        \* the host's CPU topology
    wake         \* the task the host is about to place, with what the host holds at the call

vars == <<se, exit_state, clock, steps, last, inh, sched, pen,
          bank, pending, ledger, sss, host, wake>>

sssvars == <<bank, pending, ledger, sss, host, wake>>

----------------------------------------------------------------------------
(* 64-bit unsigned arithmetic on limbs *)

\* 2^n
Pow2Of[n \in Nat] == IF n = 0 THEN 1 ELSE 2 * Pow2Of[n - 1]

Pow2(n) == Pow2Of[n]

\* the base of a limb
LIMB == Pow2(16)

Max(a, b) == IF a >= b THEN a ELSE b
Min(a, b) == IF a <= b THEN a ELSE b

U64Zero == <<0, 0, 0, 0>>

\* a natural number below 2^31 as a u64
U64(n) == <<n % LIMB, n \div LIMB, 0, 0>>

\* F of the value of x, x being evaluated once however often F uses it
Once(F(_), x) == CHOOSE y \in {F(w) : w \in {x}} : TRUE

\* limb j of v, zero outside 1..4
Limb(v, j) == IF j >= 1 /\ j <= 4 THEN v[j] ELSE 0

\* a + b modulo 2^64
U64Add(a, b) ==
    LET s1 == a[1] + b[1]
        s2 == a[2] + b[2] + (s1 \div LIMB)
        s3 == a[3] + b[3] + (s2 \div LIMB)
        s4 == a[4] + b[4] + (s3 \div LIMB)
    IN  <<s1 % LIMB, s2 % LIMB, s3 % LIMB, s4 % LIMB>>

U64Not(a) == <<LIMB - 1 - a[1], LIMB - 1 - a[2], LIMB - 1 - a[3], LIMB - 1 - a[4]>>

\* a - b modulo 2^64
U64Sub(a, b) == U64Add(U64Add(a, U64Not(b)), U64(1))

\* v << k modulo 2^64, 0 <= k <= 63
U64ShlLimbs(v, q, r) ==
    LET l(i) == ((Limb(v, i - q) * Pow2(r)) % LIMB) + (Limb(v, i - q - 1) \div Pow2(16 - r))
    IN  <<l(1), l(2), l(3), l(4)>>

U64Shl(v, k) == Once(LAMBDA w : U64ShlLimbs(w, k \div 16, k % 16), v)

\* v >> k, 0 <= k <= 63
U64ShrLimbs(v, q, r) ==
    LET l(i) == (Limb(v, i + q) \div Pow2(r)) + ((Limb(v, i + q + 1) % Pow2(r)) * Pow2(16 - r))
    IN  <<l(1), l(2), l(3), l(4)>>

U64Shr(v, k) == Once(LAMBDA w : U64ShrLimbs(w, k \div 16, k % 16), v)

\* a < b as unsigned 64-bit numbers
U64Less(a, b) ==
    \/ a[4] < b[4]
    \/ a[4] = b[4] /\ a[3] < b[3]
    \/ a[4] = b[4] /\ a[3] = b[3] /\ a[2] < b[2]
    \/ a[4] = b[4] /\ a[3] = b[3] /\ a[2] = b[2] /\ a[1] < b[1]

U64Leq(a, b) == a = b \/ U64Less(a, b)

\* (s64)v < 0: the sign bit of v
S64Negative(v) == v[4] >= 32768

\* (s64)a < (s64)b
S64Less(a, b) ==
    IF S64Negative(a) # S64Negative(b) THEN S64Negative(a) ELSE U64Less(a, b)

\* (u32)v, for a v whose upper limbs are zero and whose value is below 2^31
U32Of(v) == v[1] + LIMB * v[2]

\* position of the highest set bit of a 16-bit limb, 1-based; 0 for 0
fls16Of[x \in Nat] == IF x = 0 THEN 0 ELSE 1 + fls16Of[x \div 2]

fls16(x) == fls16Of[x]

\* fls64: position of the highest set bit, 1-based; 0 for 0
fls64(v) ==
    IF v[4] # 0 THEN 48 + fls16(v[4])
    ELSE IF v[3] # 0 THEN 32 + fls16(v[3])
    ELSE IF v[2] # 0 THEN 16 + fls16(v[2])
    ELSE fls16(v[1])

----------------------------------------------------------------------------
(* bore.c: constants *)

BORE_PENALTY_OFFSET == 25
BORE_PENALTY_SCALE == 3180
BORE_PENALTY_SHIFT == 12
BORE_SMOOTHNESS == 40
BORE_MAX_PENALTY == (40 * Pow2(BORE_PENALTY_SHIFT)) - 1
\* BORE_CACHE_LIFETIME, 100000000 ns, as a u64
BORE_CACHE_LIFETIME == U64(100000000)

\* the largest s32
S32_MAX == (Pow2(30) - 1) + Pow2(30)

----------------------------------------------------------------------------
(* bore.c: the burst penalty calculator *)

\* log2p1_u64_u32fp(v, fp): exponent << fp | mantissa
log2p1_u64_u32fp(v, fp) ==
    IF v = U64Zero THEN 0
    ELSE LET exponent == fls64(v)
             mantissa == U32Of(U64Shr(U64Shl(U64Shl(v, 64 - exponent), 1), 64 - fp))
         IN  exponent * Pow2(fp) + mantissa

\* the product without the max(0, .) floor under the tolerance
penalty_product_unfloored(burst_time) ==
    (log2p1_u64_u32fp(burst_time, BORE_PENALTY_SHIFT)
         - BORE_PENALTY_OFFSET * Pow2(BORE_PENALTY_SHIFT)) * BORE_PENALTY_SCALE

\* the s32 product penalty * BORE_PENALTY_SCALE of calc_burst_penalty
penalty_product(burst_time) ==
    LET greed == log2p1_u64_u32fp(burst_time, BORE_PENALTY_SHIFT)
        tolerance == BORE_PENALTY_OFFSET * Pow2(BORE_PENALTY_SHIFT)
        penalty == Max(0, greed - tolerance)
    IN  penalty * BORE_PENALTY_SCALE

\* the penalty without the clamp to BORE_MAX_PENALTY
calc_burst_penalty_unclamped(burst_time) ==
    (Max(0, log2p1_u64_u32fp(burst_time, BORE_PENALTY_SHIFT)
                - BORE_PENALTY_OFFSET * Pow2(BORE_PENALTY_SHIFT))
         * BORE_PENALTY_SCALE) \div Pow2(10)

calc_burst_penalty(burst_time) ==
    LET scaled_penalty == penalty_product(burst_time) \div Pow2(10)
    IN  Min(BORE_MAX_PENALTY, scaled_penalty)

----------------------------------------------------------------------------
(* The host's tasks. The task tree, the thread groups, the scheduling      *)
(* class, the flags and the static priority are owned by the host; the    *)
(* model fixes three tasks: task 1 is a kernel thread and the parent of    *)
(* tasks 2 and 3, task 2 leads the thread group that task 3 belongs to.    *)

Tasks == {1, 2, 3}

MAX_RT_PRIO == 100

\* p->real_parent
real_parent(p) == 1

\* p->group_leader
group_leader(p) == IF p = 3 THEN 2 ELSE p

\* the tasks on p's children list (bore_for_each_child)
children(p) == IF p = 1 THEN {2, 3} ELSE {}

\* the threads of p's thread group (for_each_thread)
threads(p) == {t \in Tasks : group_leader(t) = group_leader(p)}

\* p->flags & PF_KTHREAD
PF_KTHREAD(p) == p = 1

\* p->sched_class == &fair_sched_class
fair_sched_class(p) == p \in Tasks

\* p->static_prio
static_prio(p) == IF p = 3 THEN 110 ELSE 120

CLONE_PARENT == "CLONE_PARENT"
CLONE_THREAD == "CLONE_THREAD"

\* bore_task_is_eligible(p), with the host's exit states ex
bore_task_is_eligible(ex, p) == p \in Tasks /\ fair_sched_class(p) /\ ~ex[p]

----------------------------------------------------------------------------
(* bore.c: the burst state machine *)

\* struct sched_burst_cache after memset(0)
ZeroCache == [value |-> 0, count |-> 0, timestamp |-> U64Zero]

\* effective_prio(p): u8 arithmetic, clamped to 39
effective_prio(p, e) ==
    Min(39, (((static_prio(p) - MAX_RT_PRIO) % 256) + e.burst_score) % 256)

\* reweight_task_by_prio(p, prio): the host loads the weight of prio; the
\* record keeps the priority whose weight is loaded
reweight_task_by_prio(e, prio) == [e EXCEPT !.weight_prio = prio]

\* the score taken from the penalty for kernel threads too
update_burst_score_any_task(p, e) ==
    LET e1 == [e EXCEPT !.burst_score =
                            (e.burst_penalty \div Pow2(BORE_PENALTY_SHIFT)) % 256]
    IN  [e1 EXCEPT !.weight_prio = effective_prio(p, e1)]

\* the score stored before the previous priority is read: no change is seen
update_burst_score_late_prev(p, e) ==
    [e EXCEPT !.burst_score = IF ~PF_KTHREAD(p)
                              THEN (e.burst_penalty \div Pow2(BORE_PENALTY_SHIFT)) % 256
                              ELSE 0]

update_burst_score(p, e) ==
    LET prev_prio == effective_prio(p, e)
        burst_score == IF ~PF_KTHREAD(p)
                       THEN (e.burst_penalty \div Pow2(BORE_PENALTY_SHIFT)) % 256
                       ELSE 0
        e1 == [e EXCEPT !.burst_score = burst_score]
        new_prio == effective_prio(p, e1)
    IN  IF new_prio # prev_prio THEN reweight_task_by_prio(e1, new_prio) ELSE e1

\* the penalty nudged towards curr without the test curr > prev
charge_burst_unguarded(p, e, burst_time, curr) ==
    LET e1 == [e EXCEPT !.burst_time = burst_time, !.curr_burst_penalty = curr]
        e2 == [e1 EXCEPT !.burst_penalty =
                  e.prev_burst_penalty +
                  ((curr - e.prev_burst_penalty) \div e.burst_count)]
    IN  update_burst_score(p, e2)

\* update_curr_bore once burst_time is added up and its penalty calculated
charge_burst(p, e, burst_time, curr) ==
    LET e1 == [e EXCEPT !.burst_time = burst_time, !.curr_burst_penalty = curr]
        e2 == IF curr > e.prev_burst_penalty
              THEN [e1 EXCEPT !.burst_penalty =
                       e.prev_burst_penalty +
                       ((curr - e.prev_burst_penalty) \div e.burst_count)]
              ELSE e1
    IN  update_burst_score(p, e2)

update_curr_bore(p, e, delta_exec) ==
    LET burst_time == U64Add(e.burst_time, delta_exec)
    IN  Once(LAMBDA curr : charge_burst(p, e, burst_time, curr),
             calc_burst_penalty(burst_time))

\* the smoothing step with the division rounded down
binary_smooth_truncating(new, old, dumper) ==
    IF new > old THEN old + ((new - old) \div dumper) ELSE old - ((old - new) \div dumper)

binary_smooth(new, old, dumper) ==
    LET abs_diff == IF new > old THEN new - old ELSE old - new
        adj_diff == (abs_diff \div dumper) + (IF abs_diff % dumper # 0 THEN 1 ELSE 0)
    IN  IF new > old THEN old + adj_diff ELSE old - adj_diff

\* __restart_burst
restart_burst_inner(e) ==
    [e EXCEPT !.prev_burst_penalty =
                  binary_smooth(e.curr_burst_penalty, e.prev_burst_penalty, e.burst_count),
              !.burst_time = U64Zero,
              !.curr_burst_penalty = 0,
              !.burst_count = IF e.burst_count < BORE_SMOOTHNESS
                              THEN e.burst_count + 1
                              ELSE BORE_SMOOTHNESS]

\* the restart with burst_penalty left as the ticks made it
restart_burst_stale(p, e) == update_burst_score(p, restart_burst_inner(e))

restart_burst(p, e) ==
    LET e1 == restart_burst_inner(e)
    IN  update_burst_score(p, [e1 EXCEPT !.burst_penalty = e1.prev_burst_penalty])

reset_task_bore(e) ==
    [e EXCEPT !.burst_time = U64Zero,
              !.prev_burst_penalty = 0,
              !.curr_burst_penalty = 0,
              !.burst_penalty = 0,
              !.burst_score = 0,
              !.burst_count = 1,
              !.child_burst = ZeroCache,
              !.group_burst = ZeroCache]

----------------------------------------------------------------------------
(* bore.c: the burst inheritance cache *)

\* bore_cache_expired(bc, now): (s64)(timestamp + BORE_CACHE_LIFETIME - now) < 0
\* the expiry test with <= 0 in place of < 0
bore_cache_expired_inclusive(bc, now) ==
    \/ S64Negative(U64Sub(U64Add(bc.timestamp, BORE_CACHE_LIFETIME), now))
    \/ U64Add(bc.timestamp, BORE_CACHE_LIFETIME) = now

bore_cache_expired(bc, now) ==
    S64Negative(U64Sub(U64Add(bc.timestamp, BORE_CACHE_LIFETIME), now))

\* the cache rewritten with the average alone, the owner's penalty left out
update_burst_cache_average_only(e, cnt, sum, now) ==
    [value |-> IF cnt # 0 THEN sum \div cnt ELSE 0, count |-> cnt, timestamp |-> now]

update_burst_cache(e, cnt, sum, now) ==
    LET avg == IF cnt # 0 THEN sum \div cnt ELSE 0
    IN  [value |-> Max(avg, e.burst_penalty), count |-> cnt, timestamp |-> now]

\* the sum of burst_penalty over a set of tasks (the loops' sum += ...)
RECURSIVE SumPenalty(_, _)
SumPenalty(S, ts) ==
    IF ts = {} THEN 0
    ELSE LET t == CHOOSE x \in ts : TRUE
         IN  S[t].burst_penalty + SumPenalty(S, ts \ {t})

\* the eligible tasks among ts
Eligible(ex, ts) == {t \in ts : bore_task_is_eligible(ex, t)}

update_child_burst_direct(S, ex, p, now) ==
    LET el == Eligible(ex, children(p))
    IN  [S EXCEPT ![p].child_burst =
            update_burst_cache(S[p], Cardinality(el), SumPenalty(S, el), now)]

\* the task whose child cache inherit_burst_direct reads
direct_parent(p, clone_flags) ==
    IF CLONE_PARENT \in clone_flags THEN real_parent(p) ELSE p

\* inherit_burst_direct: the entities after the call (the cache may be rewritten)
inherit_burst_direct(S, ex, p, now, clone_flags) ==
    LET parent == direct_parent(p, clone_flags)
    IN  IF bore_cache_expired(S[parent].child_burst, now)
        THEN update_child_burst_direct(S, ex, parent, now)
        ELSE S

update_tg_burst(S, ex, p, now) ==
    LET el == Eligible(ex, threads(p))
    IN  [S EXCEPT ![p].group_burst =
            update_burst_cache(S[p], Cardinality(el), SumPenalty(S, el), now)]

\* inherit_burst_tg: the entities after the call
inherit_burst_tg(S, ex, p, now) ==
    LET parent == group_leader(p)
    IN  IF bore_cache_expired(S[parent].group_burst, now)
        THEN update_tg_burst(S, ex, parent, now)
        ELSE S

\* the penalty sched_clone_bore inherits: bc->value after the inherit call
inherited_penalty(S, parent, clone_flags) ==
    IF CLONE_THREAD \in clone_flags
    THEN S[group_leader(parent)].group_burst.value
    ELSE S[direct_parent(parent, clone_flags)].child_burst.value

sched_clone_bore(S, ex, p, parent, clone_flags, now) ==
    IF ~bore_task_is_eligible(ex, p) THEN S
    ELSE LET S1 == IF CLONE_THREAD \in clone_flags
                   THEN inherit_burst_tg(S, ex, parent, now)
                   ELSE inherit_burst_direct(S, ex, parent, now, clone_flags)
             penalty == inherited_penalty(S1, parent, clone_flags)
             e1 == restart_burst_inner(S1[p])
             m == Max(e1.prev_burst_penalty, penalty)
         IN  [S1 EXCEPT ![p] =
                 [e1 EXCEPT !.burst_penalty = m,
                            !.prev_burst_penalty = m,
                            !.burst_count = 1,
                            !.child_burst.timestamp = U64Zero,
                            !.group_burst.timestamp = U64Zero]]

----------------------------------------------------------------------------
(* bore.c: restart_burst_rescale_deadline.  sched_prio_to_weight and       *)
(* sched_prio_to_wmult are the host's tables (kernel/sched/core.c);        *)
(* mul_u64_u32_shr is the host's (a * mul) >> shift on a 96-bit product.   *)

sched_prio_to_weight ==
    <<88761, 71755, 56483, 46273, 36291, 29154, 23254, 18705, 14949, 11916,
      9548, 7620, 6100, 4904, 3906, 3121, 2501, 1991, 1586, 1277,
      1024, 820, 655, 526, 423, 335, 272, 215, 172, 137,
      110, 87, 70, 56, 45, 36, 29, 23, 18, 15>>

sched_prio_to_wmult ==
    <<48388, 59856, 76040, 92818, 118348, 147320, 184698, 229616, 287308, 360437,
      449829, 563644, 704093, 875809, 1099582, 1376151, 1717300, 2157191, 2708050, 3363326,
      4194304, 5237765, 6557202, 8165337, 10153587, 12820798, 15790321, 19976592, 24970740, 31350126,
      39045157, 49367440, 61356676, 76695844, 95443717, 119304647, 148102320, 186737708, 238609294, 286331153>>

\* byte i (0..7) of a u64
U64Byte(v, i) == (v[(i \div 2) + 1] \div (IF i % 2 = 0 THEN 1 ELSE 256)) % 256

\* byte j (0..3) of a u32 below 2^31
U32Byte(m, j) == (m \div Pow2(8 * j)) % 256

\* column k of the schoolbook product of the bytes of a and of mul
RECURSIVE MulColumn(_, _, _, _)
MulColumn(a, mul, k, j) ==
    IF j > 3 THEN 0
    ELSE (IF k - j >= 0 /\ k - j <= 7 THEN U64Byte(a, k - j) * U32Byte(mul, j) ELSE 0)
         + MulColumn(a, mul, k, j + 1)

\* the 12 bytes of a * mul, least significant first
RECURSIVE MulBytes(_, _, _, _)
MulBytes(a, mul, k, carry) ==
    IF k > 11 THEN <<>>
    ELSE LET c == MulColumn(a, mul, k, 0) + carry
         IN  <<c % 256>> \o MulBytes(a, mul, k + 1, c \div 256)

\* mul_u64_u32_shr(a, mul, shift): the low 64 bits of (a * mul) >> shift
mul_u64_u32_shr(a, mul, shift) ==
    LET b == MulBytes(a, mul, 0, 0)
        w(j) == IF j >= 1 /\ j <= 6 THEN b[2 * j - 1] + 256 * b[2 * j] ELSE 0
        q == shift \div 16
        r == shift % 16
        l(i) == (w(i + q) \div Pow2(r)) + ((w(i + q + 1) % Pow2(r)) * Pow2(16 - r))
    IN  <<l(1), l(2), l(3), l(4)>>

bore_scale_slice(delta, score) ==
    mul_u64_u32_shr(delta, sched_prio_to_wmult[score + 1], 22)

bore_unscale_slice(delta, score) ==
    mul_u64_u32_shr(delta, sched_prio_to_weight[score + 1], 10)

\* -v modulo 2^64
U64Neg(v) == U64Sub(U64Zero, v)

\* abs() of an s64
S64Abs(v) == IF S64Negative(v) THEN U64Neg(v) ELSE v

\* the rescaled deadline without the sign of the remaining delta put back
rescale_deadline_unsigned(vruntime, deadline, prev_prio, new_prio) ==
    LET vremain == U64Sub(deadline, vruntime)
        wremain == bore_unscale_slice(S64Abs(vremain), prev_prio)
        vscaled == bore_scale_slice(wremain, new_prio)
    IN  IF prev_prio > new_prio THEN U64Add(vruntime, vscaled) ELSE deadline

\* the deadline restart_burst_rescale_deadline leaves, given the priorities
\* before and after the restart
rescale_deadline(vruntime, deadline, prev_prio, new_prio) ==
    LET vremain == U64Sub(deadline, vruntime)
        wremain == bore_unscale_slice(S64Abs(vremain), prev_prio)
        vscaled == bore_scale_slice(wremain, new_prio)
        signed == IF S64Negative(vremain) THEN U64Neg(vscaled) ELSE vscaled
    IN  IF prev_prio > new_prio THEN U64Add(vruntime, signed) ELSE deadline

----------------------------------------------------------------------------
(* sss.c: the CPUs, the constants and the topology the host reports        *)

\* CONFIG_NR_CPUS
NR_CPUS == 3

CPUs == 0 .. (NR_CPUS - 1)

SCHED_CAPACITY_SCALE == 1024
SSS_FACTOR == SCHED_CAPACITY_SCALE \div Pow2(5)
SSS_MARGIN == SCHED_CAPACITY_SCALE \div Pow2(3)

sched_sss_smt_bias == 4
sched_sss_llc_bias == 4

\* the wake flags WF_EXEC, WF_FORK, WF_TTWU, WF_SYNC, WF_CURRENT_CPU
WAKE_EXEC == "WF_EXEC"
WAKE_FORK == "WF_FORK"
WAKE_TTWU == "WF_TTWU"
WAKE_SYNC == "WF_SYNC"
WAKE_CURRENT_CPU == "WF_CURRENT_CPU"

\* a long (64 bit) as <<q, r>>: the value q * 2^16 + r, 0 <= r < 2^16
Long(n) == <<n \div LIMB, n % LIMB>>

LongLess(a, b) == a[1] < b[1] \/ (a[1] = b[1] /\ a[2] < b[2])

\* UINT_MAX, 2^32 - 1, as a long
UINT_MAX == <<LIMB - 1, LIMB - 1>>

\* the lowest cpu of a non-empty mask
LowestCpu(mask) == CHOOSE c \in mask : \A d \in mask : c <= d

\* cpumask_first: the lowest cpu of the mask, nr_cpu_ids for an empty mask
cpumask_first(mask) == IF mask = {} THEN NR_CPUS ELSE LowestCpu(mask)

\* a scheduling domain pointer that is NULL
NoDomain == [sd |-> FALSE, span |-> {}]

Domain(span) == [sd |-> TRUE, span |-> span]

\* what the host reports per cpu: arch_scale_cpu_capacity, cpu_smt_mask,
\* per_cpu(sd_llc); and cpu_present_mask. Three machines: two last level
\* caches; two big SMT siblings and a little core; one big core and two
\* little ones with no cache domain attached yet.
HostTopologies ==
    { [present |-> CPUs,
       capacity |-> (0 :> 1024 @@ 1 :> 1024 @@ 2 :> 1024),
       smt |-> (0 :> {0} @@ 1 :> {1} @@ 2 :> {2}),
       llc |-> (0 :> Domain({0, 1}) @@ 1 :> Domain({0, 1}) @@ 2 :> Domain({2}))],
      [present |-> CPUs,
       capacity |-> (0 :> 1024 @@ 1 :> 1024 @@ 2 :> 512),
       smt |-> (0 :> {0, 1} @@ 1 :> {0, 1} @@ 2 :> {2}),
       llc |-> (0 :> Domain(CPUs) @@ 1 :> Domain(CPUs) @@ 2 :> Domain(CPUs))],
      [present |-> CPUs,
       capacity |-> (0 :> 1024 @@ 1 :> 512 @@ 2 :> 512),
       smt |-> (0 :> {0} @@ 1 :> {1} @@ 2 :> {2}),
       llc |-> (0 :> NoDomain @@ 1 :> NoDomain @@ 2 :> NoDomain)] }

\* the loop of sched_sss_init over the present cpus, lowest first
RECURSIVE sss_init_scan(_, _, _)
sss_init_scan(H, cpus, st) ==
    IF cpus = {} THEN st
    ELSE LET cpu == LowestCpu(cpus)
             cap == H.capacity[cpu]
             st1 == [st EXCEPT !.capacities[cpu] = cap]
             st2 == IF LongLess(Long(cap), st1.lowest_cap)
                    THEN [st1 EXCEPT !.tmp_lp_mask = {}, !.lowest_cap = Long(cap)]
                    ELSE st1
             st3 == IF Long(cap) = st2.lowest_cap
                    THEN [st2 EXCEPT !.tmp_lp_mask = @ \cup {cpu}]
                    ELSE st2
         IN  sss_init_scan(H, cpus \ {cpu}, st3)

\* the statics of sss.c as the image holds them
SssZeroed ==
    [capacities |-> [c \in CPUs |-> 0],
     hp_mask |-> {},
     asymmetric |-> FALSE,
     smt_bias |-> sched_sss_smt_bias,
     llc_bias |-> sched_sss_llc_bias]

\* sched_sss_init with the asymmetry test < in place of <=
sched_sss_init_strict(H, stack) ==
    LET st == sss_init_scan(H, H.present,
                            [capacities |-> [c \in CPUs |-> 0],
                             lowest_cap |-> UINT_MAX,
                             tmp_lp_mask |-> stack])
        hp == H.present \ st.tmp_lp_mask
    IN  [capacities |-> st.capacities,
         hp_mask |-> hp,
         asymmetric |-> Cardinality(st.tmp_lp_mask) < Cardinality(hp),
         smt_bias |-> sched_sss_smt_bias,
         llc_bias |-> sched_sss_llc_bias]

\* sched_sss_init: the statics of sss.c after it, the two sysctl biases at
\* their initial values; stack is what the uninitialised tmp_lp_mask holds on
\* entry
sched_sss_init(H, stack) ==
    LET st == sss_init_scan(H, H.present,
                            [capacities |-> [c \in CPUs |-> 0],
                             lowest_cap |-> UINT_MAX,
                             tmp_lp_mask |-> stack])
        hp == H.present \ st.tmp_lp_mask
    IN  [capacities |-> st.capacities,
         hp_mask |-> hp,
         asymmetric |-> Cardinality(st.tmp_lp_mask) <= Cardinality(hp),
         smt_bias |-> sched_sss_smt_bias,
         llc_bias |-> sched_sss_llc_bias]

\* sss_maxval_eight
sss_maxval_eight == 8

\* a write of v to kernel.sched_sss_smt_bias or kernel.sched_sss_llc_bias:
\* proc_douintvec_minmax stores a value from 0 to 8 and refuses the others
sched_sss_sysctl(S, procname, v) ==
    IF v < 0 \/ v > sss_maxval_eight THEN S
    ELSE IF procname = "sched_sss_smt_bias" THEN [S EXCEPT !.smt_bias = v]
    ELSE [S EXCEPT !.llc_bias = v]

----------------------------------------------------------------------------
(* sss.c: placement of a fair task. a is the call: the task's cpus_ptr,    *)
(* util_est, on_rq and whether it is current; prev_cpu, wake_flags; and    *)
(* what the host holds at the call: cpu_active_mask, this_cpu, whether     *)
(* current is exiting, wake_wide(p), the utilisation of every runqueue.    *)

\* cpumask_and(&cpus, p->cpus_ptr, cpu_active_mask)
select_cpus(a) == a.cpus_ptr \cap a.active

\* the synchronized wakeup that returns this_cpu at once
fair_fast_path(a) ==
    /\ WAKE_TTWU \in a.wake_flags
    /\ \/ WAKE_CURRENT_CPU \in a.wake_flags
       \/ WAKE_SYNC \in a.wake_flags /\ ~a.current_exiting
    /\ a.this_cpu \in select_cpus(a)

fair_p_affine(a) ==
    WAKE_TTWU \in a.wake_flags /\ ~a.wake_wide /\ a.this_cpu \in select_cpus(a)

\* curr.factor with the cache bias given to the cpus outside prev_cpu's LLC
fair_factor_llc_inverted(a, S, H, cpu) ==
    LET p_affine == fair_p_affine(a)
        llc_mask == H.llc[a.prev_cpu]
        prev_mask == H.smt[a.prev_cpu]
        p_factor == a.util_est.util
        p_queued == a.on_rq \/ a.is_current
        remaining == S.capacities[cpu]
                         - a.load[cpu].cfs - a.load[cpu].rt - a.load[cpu].dl
        accounted == IF p_queued
                     THEN remaining - (IF cpu # a.prev_cpu THEN p_factor ELSE 0)
                     ELSE remaining - p_factor
        affine == IF p_affine /\ (cpu = a.this_cpu \/ cpu = a.prev_cpu)
                  THEN SSS_FACTOR * 8 ELSE 0
        smt == IF ~p_affine /\ WAKE_TTWU \in a.wake_flags /\ cpu \in prev_mask
               THEN SSS_FACTOR * S.smt_bias ELSE 0
        llc == IF llc_mask.sd /\ cpu \notin llc_mask.span
               THEN SSS_FACTOR * S.llc_bias ELSE 0
    IN  IF WAKE_EXEC \in a.wake_flags \/ accounted < SSS_MARGIN
        THEN accounted
        ELSE accounted + affine + smt + llc

\* curr.factor of the fair loop for one cpu
fair_factor(a, S, H, cpu) ==
    LET p_affine == fair_p_affine(a)
        llc_mask == H.llc[a.prev_cpu]
        prev_mask == H.smt[a.prev_cpu]
        p_factor == a.util_est.util
        p_queued == a.on_rq \/ a.is_current
        remaining == S.capacities[cpu]
                         - a.load[cpu].cfs - a.load[cpu].rt - a.load[cpu].dl
        accounted == IF p_queued
                     THEN remaining - (IF cpu # a.prev_cpu THEN p_factor ELSE 0)
                     ELSE remaining - p_factor
        affine == IF p_affine /\ (cpu = a.this_cpu \/ cpu = a.prev_cpu)
                  THEN SSS_FACTOR * 8 ELSE 0
        smt == IF ~p_affine /\ WAKE_TTWU \in a.wake_flags /\ cpu \in prev_mask
               THEN SSS_FACTOR * S.smt_bias ELSE 0
        llc == IF llc_mask.sd /\ cpu \in llc_mask.span
               THEN SSS_FACTOR * S.llc_bias ELSE 0
    IN  IF WAKE_EXEC \in a.wake_flags \/ accounted < SSS_MARGIN
        THEN accounted
        ELSE accounted + affine + smt + llc

\* for_each_cpu(cpu, &cpus) of the fair selector: best after the cpus left
RECURSIVE fair_scan(_, _, _, _, _)
fair_scan(a, S, H, cpus, best) ==
    IF cpus = {} THEN best
    ELSE LET cpu == LowestCpu(cpus)
             curr == [cpu |-> cpu, factor |-> fair_factor(a, S, H, cpu)]
         IN  fair_scan(a, S, H, cpus \ {cpu},
                       IF curr.factor > best.factor THEN curr ELSE best)

\* the fair selector without the test for an empty candidate mask
sss_select_task_rq_fair_unchecked(a, S, H) ==
    IF fair_fast_path(a) THEN a.this_cpu
    ELSE fair_scan(a, S, H, select_cpus(a), [cpu |-> a.prev_cpu, factor |-> 0]).cpu

sss_select_task_rq_fair(a, S, H) ==
    IF select_cpus(a) = {} THEN cpumask_first(a.cpus_ptr)
    ELSE IF fair_fast_path(a) THEN a.this_cpu
    ELSE fair_scan(a, S, H, select_cpus(a), [cpu |-> a.prev_cpu, factor |-> 0]).cpu

----------------------------------------------------------------------------
(* sss.c: placement of a real-time task. a is the call: the task's         *)
(* cpus_ptr, normal_prio and on_rq; prev_cpu, wake_flags; cpu_active_mask; *)
(* and the curr and donor tasks of prev_cpu's runqueue.                    *)

\* rt_task(p): p->prio is a real-time priority
rt_task(p) == p.prio < MAX_RT_PRIO

\* the candidates with the high performance narrowing left out
rt_hp_cpus_all(a, S) == select_cpus(a)

\* the candidates narrowed to the high performance cpus
rt_hp_cpus(a, S) ==
    IF S.asymmetric /\ (select_cpus(a) \cap S.hp_mask) # {}
    THEN select_cpus(a) \cap S.hp_mask
    ELSE select_cpus(a)

\* prev_cpu cleared only when the occupant both cannot migrate and has the
\* priority
rt_clear_prev_both(a) ==
    /\ a.wake_flags \cap {WAKE_TTWU, WAKE_FORK} # {}
    /\ a.prev_rq.curr.task
    /\ rt_task(a.prev_rq.donor)
    /\ a.prev_rq.curr.nr_cpus_allowed < 2
    /\ a.prev_rq.donor.normal_prio <= a.normal_prio

\* whether prev_cpu is cleared from the candidates
rt_clear_prev(a) ==
    /\ a.wake_flags \cap {WAKE_TTWU, WAKE_FORK} # {}
    /\ a.prev_rq.curr.task
    /\ rt_task(a.prev_rq.donor)
    /\ \/ a.prev_rq.curr.nr_cpus_allowed < 2
       \/ a.prev_rq.donor.normal_prio <= a.normal_prio

\* the cpus the loop of the real-time selector visits
rt_cpus(a, S) ==
    IF rt_clear_prev(a) THEN rt_hp_cpus(a, S) \ {a.prev_cpu} ELSE rt_hp_cpus(a, S)

\* curr.factor of the real-time loop for one cpu
rt_factor(a, B, cpu) ==
    LET p_factor == MAX_RT_PRIO - a.normal_prio
    IN  IF a.on_rq
        THEN B[cpu] + (IF cpu # a.prev_cpu THEN p_factor ELSE 0)
        ELSE B[cpu] + p_factor

RECURSIVE rt_scan(_, _, _, _)
rt_scan(a, B, cpus, best) ==
    IF cpus = {} THEN best
    ELSE LET cpu == LowestCpu(cpus)
             curr == [cpu |-> cpu, factor |-> Long(rt_factor(a, B, cpu))]
         IN  rt_scan(a, B, cpus \ {cpu},
                     IF LongLess(curr.factor, best.factor) THEN curr ELSE best)

\* the real-time selector with best.factor held in 32 bits: UINT_MAX reads -1
sss_select_task_rq_rt_narrow(a, S, B) ==
    IF select_cpus(a) = {} THEN cpumask_first(a.cpus_ptr)
    ELSE rt_scan(a, B, rt_cpus(a, S), [cpu |-> a.prev_cpu, factor |-> Long(-1)]).cpu

sss_select_task_rq_rt(a, S, B) ==
    IF select_cpus(a) = {} THEN cpumask_first(a.cpus_ptr)
    ELSE rt_scan(a, B, rt_cpus(a, S), [cpu |-> a.prev_cpu, factor |-> UINT_MAX]).cpu

\* atomic_add(i, v) and atomic_sub(i, v): one indivisible read-modify-write
atomic_add(i, v) == v + i

\* the subtraction with its operands exchanged
atomic_sub_exchanged(i, v) == i - v

atomic_sub(i, v) == v - i

sss_rt_add_factor(B, cpu, normal_prio) ==
    [B EXCEPT ![cpu] = atomic_add(MAX_RT_PRIO - normal_prio, B[cpu])]

sss_rt_sub_factor(B, cpu, normal_prio) ==
    [B EXCEPT ![cpu] = atomic_sub(MAX_RT_PRIO - normal_prio, B[cpu])]

----------------------------------------------------------------------------
(* The placement state after boot *)

\* the real-time priorities (normal_prio) of the tasks the model enqueues
RtPrios == {90, 95}

\* the callers of the bank: two cpus in scheduler context
Callers == {0, 1}

Idle == [op |-> "idle"]

\* no real-time task enqueued; or one of priority 90 on cpu 0, one of
\* priority 95 on cpu 1, two of priority 90 on cpu 2
RtQueues ==
    { [c \in CPUs |-> [q \in RtPrios |-> 0]],
      (0 :> (90 :> 1 @@ 95 :> 0) @@ 1 :> (90 :> 0 @@ 95 :> 1) @@ 2 :> (90 :> 2 @@ 95 :> 0)) }

\* the accumulator the enqueued tasks of a cpu add up to
QueuedFactor(on, cpu) ==
    on[cpu][90] * (MAX_RT_PRIO - 90) + on[cpu][95] * (MAX_RT_PRIO - 95)

\* what the uninitialised tmp_lp_mask may hold
StackMasks == {{}, {2}}

InitSss(H, on) ==
    /\ host = H
    /\ sss \in {sched_sss_init(H, stack) : stack \in StackMasks}
    /\ bank = [c \in CPUs |-> QueuedFactor(on, c)]
    /\ pending = [t \in Callers |-> Idle]
    /\ ledger = [on |-> on,
                 initial |-> [c \in CPUs |-> QueuedFactor(on, c)],
                 added |-> [c \in CPUs |-> 0],
                 removed |-> [c \in CPUs |-> 0],
                 made |-> 0,
                 overlapped |-> FALSE]

NoWake == [kind |-> "none"]

\* the placement state while the model exercises the burst engine only
SssAtRest ==
    /\ InitSss(CHOOSE H \in HostTopologies : H.llc[2].span = {2},
               [c \in CPUs |-> [q \in RtPrios |-> 0]])
    /\ wake = NoWake

----------------------------------------------------------------------------
(* The burst state machine as the host drives it *)

\* bound: the number of operations of one behaviour
MaxSteps == 3

\* runtime the host accrues in one tick: 2^28 ns and 2^38 ns
TickDeltas == {<<0, 4096, 0, 0>>, <<0, 0, 64, 0>>}

\* time that passes before a fork: 60 ms and 100 ms
ClockDeltas == {U64(60000000), U64(100000000)}

\* the forks the host performs: <<child, parent, clone flags>>
ForkCalls == {<<2, 1, {}>>, <<3, 1, {}>>, <<3, 2, {CLONE_THREAD}>>, <<3, 2, {CLONE_PARENT}>>}

\* the vruntime and the deadlines the host holds at a restart with rescale
HostVruntime == U64(10000000)
HostDeadlines == {U64(13000000), U64(9000000)}

NoCall == [kind |-> "none"]

\* the host calls in any order, up to MaxSteps calls
CanStep == sched.mode = "free" /\ steps < MaxSteps

InitEntity(p) ==
    [burst_time |-> U64Zero,
     curr_burst_penalty |-> 0,
     prev_burst_penalty |-> 0,
     burst_penalty |-> 0,
     burst_score |-> 0,
     burst_count |-> 1,
     child_burst |-> ZeroCache,
     group_burst |-> ZeroCache,
     weight_prio |-> static_prio(p) - MAX_RT_PRIO]

\* sched_bore_init and task creation: every record reset, the clock at boot
InitBore(boot) ==
    /\ se = [p \in Tasks |-> reset_task_bore(InitEntity(p))]
    /\ exit_state = [p \in Tasks |-> FALSE]
    /\ clock = boot
    /\ steps = 0
    /\ last = [op |-> "init"]
    /\ inh = NoCall

\* the burst engine at boot, no cpu being chosen meanwhile
InitBurstAt(boot) == InitBore(boot) /\ SssAtRest

\* onRuntimeAccrued: update_curr_bore
DoTick(p, delta_exec) ==
    /\ se' = [se EXCEPT ![p] = update_curr_bore(p, se[p], delta_exec)]
    /\ last' = [op |-> "tick", p |-> p, delta_exec |-> delta_exec]
    /\ UNCHANGED <<exit_state, clock, inh, pen>>
    /\ UNCHANGED sssvars

Tick(p, delta_exec) ==
    /\ CanStep
    /\ DoTick(p, delta_exec)
    /\ steps' = steps + 1
    /\ UNCHANGED sched

\* onTaskSleepOrDequeue: restart_burst
DoRestart(p) ==
    /\ se' = [se EXCEPT ![p] = restart_burst(p, se[p])]
    /\ last' = [op |-> "restart", p |-> p]
    /\ UNCHANGED <<exit_state, clock, inh, pen>>
    /\ UNCHANGED sssvars

Restart(p) ==
    /\ CanStep
    /\ DoRestart(p)
    /\ steps' = steps + 1
    /\ UNCHANGED sched

\* onTaskSleepOrDequeueWithDeadlineRescale: restart_burst_rescale_deadline;
\* vruntime and deadline are the host's, the new deadline goes back to it
RestartWithDeadlineRescale(p, vruntime, deadline) ==
    /\ CanStep
    /\ LET prev_prio == effective_prio(p, se[p])
           e1 == restart_burst(p, se[p])
           new_prio == effective_prio(p, e1)
       IN  /\ se' = [se EXCEPT ![p] = e1]
           /\ last' = [op |-> "restart_rescale", p |-> p,
                       vruntime |-> vruntime, deadline |-> deadline,
                       prev_prio |-> prev_prio, new_prio |-> new_prio,
                       new_vruntime |-> vruntime,
                       new_deadline |->
                           rescale_deadline(vruntime, deadline, prev_prio, new_prio)]
    /\ steps' = steps + 1
    /\ UNCHANGED <<exit_state, clock, inh, sched, pen>>
    /\ UNCHANGED sssvars

\* onTaskCreated: reset_task_bore
Reset(p) ==
    /\ CanStep
    /\ se' = [se EXCEPT ![p] = reset_task_bore(se[p])]
    /\ last' = [op |-> "reset", p |-> p]
    /\ steps' = steps + 1
    /\ UNCHANGED <<exit_state, clock, inh, sched, pen>>
    /\ UNCHANGED sssvars

\* the cache an inheritance call with these arguments reads
CacheOwner(parent, clone_flags) ==
    IF CLONE_THREAD \in clone_flags THEN group_leader(parent)
    ELSE direct_parent(parent, clone_flags)

CacheKind(clone_flags) == IF CLONE_THREAD \in clone_flags THEN "group" ELSE "child"

CacheOf(S, owner, kind) ==
    IF kind = "group" THEN S[owner].group_burst ELSE S[owner].child_burst

\* onTaskForked: sched_clone_bore at the host's clock
Fork(p, parent, clone_flags, now) ==
    /\ CanStep
    /\ se' = sched_clone_bore(se, exit_state, p, parent, clone_flags, now)
    /\ clock' = now
    /\ LET owner == CacheOwner(parent, clone_flags)
           kind == CacheKind(clone_flags)
           called == bore_task_is_eligible(exit_state, p)
           recomputed == called /\ bore_cache_expired(CacheOf(se, owner, kind), now)
       IN  /\ last' = [op |-> "fork", p |-> p, parent |-> parent,
                       clone_flags |-> clone_flags, now |-> now,
                       called |-> called, recomputed |-> recomputed]
           /\ inh' = IF called
                     THEN [kind |-> kind, owner |-> owner, now |-> now,
                           value |-> inherited_penalty(
                                         IF CLONE_THREAD \in clone_flags
                                         THEN inherit_burst_tg(se, exit_state, parent, now)
                                         ELSE inherit_burst_direct(se, exit_state, parent,
                                                                   now, clone_flags),
                                         parent, clone_flags),
                           recomputed |-> recomputed,
                           changed |-> FALSE]
                     ELSE inh
    /\ steps' = steps + 1
    /\ UNCHANGED <<exit_state, sched, pen>>
    /\ UNCHANGED sssvars

\* the host marks a task as exiting: it leaves every aggregate
Exit(p) ==
    /\ CanStep
    /\ ~exit_state[p]
    /\ exit_state' = [exit_state EXCEPT ![p] = TRUE]
    /\ last' = [op |-> "exit", p |-> p]
    /\ inh' = IF inh.kind = "none" THEN inh ELSE [inh EXCEPT !.changed = TRUE]
    /\ steps' = steps + 1
    /\ UNCHANGED <<se, clock, sched, pen>>
    /\ UNCHANGED sssvars

Init ==
    /\ InitBurstAt(U64Zero)
    /\ sched = [mode |-> "free"]
    /\ pen = [op |-> "unused"]

Next ==
    \/ \E p \in Tasks, d \in TickDeltas : Tick(p, d)
    \/ \E p \in Tasks : Restart(p)
    \/ \E p \in Tasks, d \in HostDeadlines : RestartWithDeadlineRescale(p, HostVruntime, d)
    \/ \E p \in Tasks : Reset(p)
    \/ \E c \in ForkCalls, d \in ClockDeltas : Fork(c[1], c[2], c[3], U64Add(clock, d))
    \/ \E p \in {2, 3} : Exit(p)

Spec == Init /\ [][Next]_vars

\* a delta_exec that carries a burst_time of 2^38 ns over 2^64 to 2^30 ns
WrapDeltas == {U64Sub(<<0, 16384, 0, 0>>, <<0, 0, 64, 0>>)}

\* the same calls, and ticks whose delta_exec is large enough to wrap burst_time
NextWide ==
    \/ Next
    \/ \E p \in Tasks, d \in WrapDeltas : Tick(p, d)

SpecWide == Init /\ [][NextWide]_vars

\* the same calls on a clock that starts at boot, or one second after it, or
\* 10 ms or 70 ms before it wraps around
BootClocks == {U64Zero, U64(1000000000), U64Neg(U64(10000000)), U64Neg(U64(70000000))}

InitCache ==
    /\ \E boot \in BootClocks : InitBurstAt(boot)
    /\ sched = [mode |-> "free"]
    /\ pen = [op |-> "unused"]

SpecCache == InitCache /\ [][Next]_vars

----------------------------------------------------------------------------
(* A run of equal bursts: task 2 runs the same burst (one tick of the      *)
(* same length, then a restart) again and again, so that before every      *)
(* restart curr_burst_penalty is the same value; once, at the start of a   *)
(* burst, the host may change the length of the bursts.                    *)

\* a task that is no kernel thread and leads its thread group
SmoothTask == CHOOSE t \in Tasks : ~PF_KTHREAD(t) /\ group_leader(t) = t

InitSmooth ==
    /\ InitBurstAt(U64Zero)
    /\ sched \in {[mode |-> "smooth", phase |-> 1, target |-> d] : d \in TickDeltas}
    /\ pen = [op |-> "unused"]

SmoothTick ==
    /\ sched.mode = "smooth"
    /\ se[SmoothTask].burst_time = U64Zero
    /\ DoTick(SmoothTask, sched.target)
    /\ UNCHANGED <<steps, sched>>

SmoothRestart ==
    /\ sched.mode = "smooth"
    /\ se[SmoothTask].burst_time # U64Zero
    /\ DoRestart(SmoothTask)
    /\ UNCHANGED <<steps, sched>>

SmoothSwitch(d) ==
    /\ sched.mode = "smooth"
    /\ sched.phase = 1
    /\ se[SmoothTask].burst_time = U64Zero
    /\ d # sched.target
    /\ sched' = [sched EXCEPT !.phase = 2, !.target = d]
    /\ last' = [op |-> "switch"]
    /\ UNCHANGED <<se, exit_state, clock, steps, inh, pen>>
    /\ UNCHANGED sssvars

NextSmooth ==
    \/ SmoothTick
    \/ SmoothRestart
    \/ \E d \in TickDeltas : SmoothSwitch(d)

SpecSmooth == InitSmooth /\ [][NextSmooth]_vars

\* the host keeps scheduling the task: a burst that can go on does
SpecSmoothFair == SpecSmooth /\ WF_vars(SmoothTick) /\ WF_vars(SmoothRestart)

\* free calls and runs of equal bursts together
InitAll == Init \/ InitSmooth

NextAll == Next \/ NextSmooth

SpecAll == InitAll /\ [][NextAll]_vars

----------------------------------------------------------------------------
(* The burst penalty calculator on its own: pairs of burst times a <= b    *)

\* 2^k as a u64, 0 <= k <= 63
U64Pow2(k) == U64Shl(U64(1), k)

U64Max == U64Not(U64Zero)

\* burst times around every power of two: 2^k - 1, 2^k, 2^k + 1, 1.5 * 2^k,
\* and 0 and 2^64 - 1
PenaltySamples ==
    {U64Zero, U64Max}
    \cup {U64Pow2(k) : k \in 0..63}
    \cup {U64Sub(U64Pow2(k), U64(1)) : k \in 1..63}
    \cup {U64Add(U64Pow2(k), U64(1)) : k \in 1..63}
    \cup {U64Add(U64Pow2(k), U64Pow2(k - 1)) : k \in 1..63}

InitPenalty ==
    /\ InitBurstAt(U64Zero)
    /\ sched = [mode |-> "penalty"]
    /\ \E a \in PenaltySamples, b \in PenaltySamples :
           /\ U64Leq(a, b)
           /\ pen = [op |-> "input", a |-> a, b |-> b]

CalcPenalty ==
    /\ pen.op = "input"
    /\ pen' = [op |-> "calc", a |-> pen.a, b |-> pen.b,
               penalty_a |-> calc_burst_penalty(pen.a),
               penalty_b |-> calc_burst_penalty(pen.b),
               product_b |-> penalty_product(pen.b)]
    /\ UNCHANGED <<se, exit_state, clock, steps, last, inh, sched>>
    /\ UNCHANGED sssvars

NextPenalty == CalcPenalty

SpecPenalty == InitPenalty /\ [][NextPenalty]_vars

----------------------------------------------------------------------------
(* Placement on its own: the host holds one task to place, fair or        *)
(* real-time, and calls the selector of its class.                         *)

\* p->cpus_ptr and cpu_active_mask
AllowedSets == {{0, 1, 2}, {0, 1}, {1, 2}, {2}}

ActiveSets == {{0, 1, 2}, {0, 1}, {0}}

\* the wake flags of a call with this_cpu, wake_wide(p) and whether current
\* is exiting; the last three matter to a wakeup (WF_TTWU) only
WakeContexts ==
    {[wake_flags |-> f, this_cpu |-> 0, wake_wide |-> FALSE, current_exiting |-> FALSE] :
        f \in {{}, {WAKE_EXEC}, {WAKE_FORK}}}
    \cup
    {r \in [wake_flags : {{WAKE_TTWU}, {WAKE_TTWU, WAKE_SYNC}, {WAKE_TTWU, WAKE_CURRENT_CPU}},
            this_cpu : {0, 2},
            wake_wide : BOOLEAN,
            current_exiting : BOOLEAN] :
        r.current_exiting => WAKE_SYNC \in r.wake_flags}

\* rq->cfs.avg.util_est, rq->avg_rt.util_avg and rq->avg_dl.util_avg of a cpu
Load(cfs, rt, dl) == [cfs |-> cfs, rt |-> rt, dl |-> dl]

LoadMaps ==
    { (0 :> Load(0, 0, 0) @@ 1 :> Load(0, 0, 0) @@ 2 :> Load(0, 0, 0)),
      (0 :> Load(60, 20, 20) @@ 1 :> Load(0, 0, 0) @@ 2 :> Load(0, 0, 0)),
      (0 :> Load(0, 0, 0) @@ 1 :> Load(0, 0, 0) @@ 2 :> Load(60, 20, 20)),
      (0 :> Load(900, 0, 0) @@ 1 :> Load(0, 0, 0) @@ 2 :> Load(500, 400, 200)),
      (0 :> Load(500, 400, 200) @@ 1 :> Load(600, 400, 200) @@ 2 :> Load(500, 400, 200)),
      (0 :> Load(600, 400, 200) @@ 1 :> Load(500, 400, 200) @@ 2 :> Load(0, 0, 0)) }

\* p->se.avg.util_est: the UTIL_AVG_UNCHANGED flag and the estimate under it
UtilEsts == {[unchanged |-> FALSE, util |-> 0], [unchanged |-> TRUE, util |-> 200]}

\* task_on_rq_queued(p) and current == p
QueueStates ==
    {[on_rq |-> FALSE, is_current |-> FALSE],
     [on_rq |-> TRUE, is_current |-> FALSE],
     [on_rq |-> FALSE, is_current |-> TRUE]}

FairCalls ==
    {[cpus_ptr |-> al, active |-> ac, prev_cpu |-> pc,
      wake_flags |-> w.wake_flags, this_cpu |-> w.this_cpu,
      wake_wide |-> w.wake_wide, current_exiting |-> w.current_exiting,
      load |-> ld, util_est |-> ue, on_rq |-> q.on_rq, is_current |-> q.is_current] :
        al \in AllowedSets, ac \in ActiveSets, pc \in CPUs, w \in WakeContexts,
        ld \in LoadMaps, ue \in UtilEsts, q \in QueueStates}

\* rq->curr of prev_cpu (NULL, or a task with its nr_cpus_allowed)
NoTask == [task |-> FALSE, nr_cpus_allowed |-> 0]

Task(nr_cpus_allowed) == [task |-> TRUE, nr_cpus_allowed |-> nr_cpus_allowed]

\* rq->donor of prev_cpu: its prio and its normal_prio
Donor(prio, normal_prio) == [prio |-> prio, normal_prio |-> normal_prio]

PrevRqs ==
    {[curr |-> NoTask, donor |-> Donor(120, 120)],
     [curr |-> Task(3), donor |-> Donor(120, 120)],
     [curr |-> Task(1), donor |-> Donor(92, 92)],
     [curr |-> Task(3), donor |-> Donor(92, 92)],
     [curr |-> Task(3), donor |-> Donor(92, 120)]}

RtCall(al, ac, pc, wf, q, np, rq) ==
    [cpus_ptr |-> al, active |-> ac, prev_cpu |-> pc, wake_flags |-> wf,
     on_rq |-> q, normal_prio |-> np, prev_rq |-> rq]

RtCalls ==
    {RtCall(al, ac, pc, wf, q, np, rq) :
        al \in AllowedSets, ac \in ActiveSets, pc \in CPUs,
        wf \in {{}, {WAKE_TTWU}, {WAKE_FORK}}, q \in BOOLEAN, np \in RtPrios,
        rq \in PrevRqs}

\* chooseCpuForFairTask
SelectFair(a) ==
    /\ last' = [op |-> "select_fair", a |-> a,
                cpus |-> select_cpus(a),
                fast |-> fair_fast_path(a),
                factor |-> [c \in select_cpus(a) |-> fair_factor(a, sss, host, c)],
                cpu |-> sss_select_task_rq_fair(a, sss, host)]
    /\ UNCHANGED <<se, exit_state, clock, steps, inh, sched, pen>>
    /\ UNCHANGED sssvars

\* chooseCpuForRealtimeTask
SelectRt(a) ==
    /\ last' = [op |-> "select_rt", a |-> a,
                cpus |-> rt_cpus(a, sss),
                factor |-> [c \in rt_cpus(a, sss) |-> rt_factor(a, bank, c)],
                cpu |-> sss_select_task_rq_rt(a, sss, bank)]
    /\ UNCHANGED <<se, exit_state, clock, steps, inh, sched, pen>>
    /\ UNCHANGED sssvars

InitPlacement ==
    /\ InitBore(U64Zero)
    /\ sched = [mode |-> "placement"]
    /\ pen = [op |-> "unused"]
    /\ \E H \in HostTopologies, on \in RtQueues : InitSss(H, on)

InitSSS ==
    /\ InitPlacement
    /\ \/ /\ wake \in {[kind |-> "fair", a |-> a] : a \in FairCalls}
          /\ bank = [c \in CPUs |-> 0]
       \/ wake \in {[kind |-> "rt", a |-> a] : a \in RtCalls}

NextSSS ==
    \/ wake.kind = "fair" /\ SelectFair(wake.a)
    \/ wake.kind = "rt" /\ SelectRt(wake.a)

SpecSSS == InitSSS /\ [][NextSSS]_vars

----------------------------------------------------------------------------
(* Boot: the host reports the present cpus and their capacities, and calls  *)
(* sched_sss_init once, with whatever its stack holds.                      *)

\* every non-empty set of present cpus, every capacity of 256, 512 or 1024
BootTopologies ==
    {[present |-> pr,
      capacity |-> cap,
      smt |-> [c \in CPUs |-> {c}],
      llc |-> [c \in CPUs |-> NoDomain]] :
        pr \in (SUBSET CPUs) \ {{}}, cap \in [CPUs -> {256, 512, 1024}]}

InitTopology ==
    /\ InitBore(U64Zero)
    /\ sched = [mode |-> "boot"]
    /\ pen = [op |-> "unused"]
    /\ host \in BootTopologies
    /\ sss = SssZeroed
    /\ bank = [c \in CPUs |-> 0]
    /\ pending = [t \in Callers |-> Idle]
    /\ ledger = [on |-> [c \in CPUs |-> [q \in RtPrios |-> 0]],
                 initial |-> [c \in CPUs |-> 0],
                 added |-> [c \in CPUs |-> 0],
                 removed |-> [c \in CPUs |-> 0],
                 made |-> 0,
                 overlapped |-> FALSE]
    /\ wake \in {[kind |-> "boot", stack |-> m] : m \in SUBSET CPUs}

\* initTopology: sched_sss_init
BootSss ==
    /\ last.op = "init"
    /\ wake.kind = "boot"
    /\ sss' = sched_sss_init(host, wake.stack)
    /\ last' = [op |-> "sss_init"]
    /\ UNCHANGED <<se, exit_state, clock, steps, inh, sched, pen,
                   bank, pending, ledger, host, wake>>

SpecTopology == InitTopology /\ [][BootSss]_vars

----------------------------------------------------------------------------
(* The bias knobs: the administrator writes one of the two sysctls, then   *)
(* the host places a fair task.                                            *)

\* the same load on every cpu: idle, at SSS_MARGIN of an all-1024 machine,
\* busier than that, and beyond the capacity
BiasLoads ==
    {[c \in CPUs |-> ld] :
        ld \in {Load(0, 0, 0), Load(896, 0, 0), Load(900, 50, 0), Load(500, 400, 200)}}

BiasCalls ==
    {[cpus_ptr |-> al, active |-> CPUs, prev_cpu |-> pc,
      wake_flags |-> wf, this_cpu |-> 0,
      wake_wide |-> ww, current_exiting |-> FALSE,
      load |-> ld, util_est |-> ue, on_rq |-> q, is_current |-> FALSE] :
        al \in {{1, 2}, {0, 1, 2}}, pc \in {0, 2},
        wf \in {{}, {WAKE_EXEC}, {WAKE_FORK}, {WAKE_TTWU}}, ww \in BOOLEAN,
        ld \in BiasLoads, ue \in UtilEsts, q \in BOOLEAN}

\* a write to one of the sysctls
WriteSysctl(procname, v) ==
    /\ last.op = "init"
    /\ sss' = sched_sss_sysctl(sss, procname, v)
    /\ last' = [op |-> "sysctl", procname |-> procname, v |-> v]
    /\ UNCHANGED <<se, exit_state, clock, steps, inh, sched, pen,
                   bank, pending, ledger, host, wake>>

InitBias ==
    /\ InitPlacement
    /\ wake \in {[kind |-> "fair", a |-> a] : a \in BiasCalls}
    /\ bank = [c \in CPUs |-> 0]

NextBias ==
    \/ \E procname \in {"sched_sss_smt_bias", "sched_sss_llc_bias"},
          v \in 0 .. (sss_maxval_eight + 1) : WriteSysctl(procname, v)
    \/ last.op # "select_fair" /\ SelectFair(wake.a)

SpecBias == InitBias /\ [][NextBias]_vars

----------------------------------------------------------------------------
(* The bank under concurrent callers: a caller issues a call, and performs  *)
(* its atomic read-modify-write at some later step, so that calls of        *)
(* different callers overlap in every order; real-time wakeups are placed   *)
(* in between.                                                              *)

\* bound: the number of bank calls of one behaviour
MaxCalls == 2

\* another caller is between its call and its read-modify-write
OtherCallPending(t) == \E u \in Callers \ {t} : pending[u] # Idle

\* a caller enters sss_rt_add_factor(cpu, normal_prio): a task is enqueued
CallAddFactor(t, cpu, normal_prio) ==
    /\ pending[t] = Idle
    /\ ledger.made < MaxCalls
    /\ pending' = [pending EXCEPT ![t] = [op |-> "add", cpu |-> cpu, normal_prio |-> normal_prio]]
    /\ ledger' = [ledger EXCEPT !.made = @ + 1,
                                !.added[cpu] = @ + (MAX_RT_PRIO - normal_prio),
                                !.overlapped = @ \/ OtherCallPending(t)]
    /\ last' = [op |-> "call", caller |-> t]
    /\ UNCHANGED <<se, exit_state, clock, steps, inh, sched, pen, bank, sss, host, wake>>

\* a caller enters sss_rt_sub_factor(cpu, normal_prio): a task that is
\* enqueued on cpu is dequeued
CallSubFactor(t, cpu, normal_prio) ==
    /\ pending[t] = Idle
    /\ ledger.made < MaxCalls
    /\ ledger.on[cpu][normal_prio] > 0
    /\ pending' = [pending EXCEPT ![t] = [op |-> "sub", cpu |-> cpu, normal_prio |-> normal_prio]]
    /\ ledger' = [ledger EXCEPT !.made = @ + 1,
                                !.removed[cpu] = @ + (MAX_RT_PRIO - normal_prio),
                                !.on[cpu][normal_prio] = @ - 1,
                                !.overlapped = @ \/ OtherCallPending(t)]
    /\ last' = [op |-> "call", caller |-> t]
    /\ UNCHANGED <<se, exit_state, clock, steps, inh, sched, pen, bank, sss, host, wake>>

\* onRealtimeTaskAdmitted: the atomic_add of the caller's call
AddFactor(t) ==
    /\ pending[t].op = "add"
    /\ bank' = sss_rt_add_factor(bank, pending[t].cpu, pending[t].normal_prio)
    /\ pending' = [pending EXCEPT ![t] = Idle]
    /\ ledger' = [ledger EXCEPT !.on[pending[t].cpu][pending[t].normal_prio] = @ + 1]
    /\ last' = [op |-> "add_factor", caller |-> t, cpu |-> pending[t].cpu,
                normal_prio |-> pending[t].normal_prio]
    /\ UNCHANGED <<se, exit_state, clock, steps, inh, sched, pen, sss, host, wake>>

\* onRealtimeTaskRemoved: the atomic_sub of the caller's call
SubFactor(t) ==
    /\ pending[t].op = "sub"
    /\ bank' = sss_rt_sub_factor(bank, pending[t].cpu, pending[t].normal_prio)
    /\ pending' = [pending EXCEPT ![t] = Idle]
    /\ last' = [op |-> "sub_factor", caller |-> t, cpu |-> pending[t].cpu,
                normal_prio |-> pending[t].normal_prio]
    /\ UNCHANGED <<se, exit_state, clock, steps, inh, sched, pen, ledger, sss, host, wake>>

\* the wakeups of real-time tasks placed while the bank changes
RtWakeCalls ==
    {RtCall(al, CPUs, pc, {WAKE_TTWU}, q, np, [curr |-> NoTask, donor |-> Donor(120, 120)]) :
        al \in {{0, 1}, {0, 1, 2}}, pc \in {0, 1}, q \in BOOLEAN, np \in {90}}

NextRT ==
    \/ \E t \in Callers, c \in CPUs, q \in RtPrios : CallAddFactor(t, c, q)
    \/ \E t \in Callers, c \in CPUs, q \in RtPrios : CallSubFactor(t, c, q)
    \/ \E t \in Callers : AddFactor(t)
    \/ \E t \in Callers : SubFactor(t)
    \/ \E a \in RtWakeCalls : SelectRt(a)

InitRT == InitPlacement /\ wake = NoWake

SpecRT == InitRT /\ [][NextRT]_vars

----------------------------------------------------------------------------
(* Claims *)

CeilDiv(a, b) == (a + b - 1) \div b

AbsDiff(a, b) == IF a >= b THEN a - b ELSE b - a

\* C1: in every reachable state every task's burst record has
\* 0 <= burst_penalty <= MAX_PENALTY, 0 <= burst_score <= 39 and
\* 1 <= burst_count <= 40 (so no division by burst_count divides by zero).
C1_BurstBounds ==
    \A p \in Tasks :
        /\ se[p].burst_penalty >= 0
        /\ se[p].burst_penalty <= (40 * 4096) - 1
        /\ se[p].burst_score >= 0
        /\ se[p].burst_score <= 39
        /\ se[p].burst_count >= 1
        /\ se[p].burst_count <= 40

\* a record at the top of all three ranges
C1_Witness ==
    \E p \in Tasks :
        /\ se[p].burst_penalty = (40 * 4096) - 1
        /\ se[p].burst_score = 39
        /\ se[p].burst_count = 40

\* C2: penalty is monotonically non-decreasing in burst_time, bounded by
\* MAX_PENALTY, zero at zero, and the s32 product penalty * 3180 does not
\* overflow.
C2_PenaltyMonotoneBounded ==
    pen.op = "calc" =>
        /\ pen.penalty_a <= pen.penalty_b
        /\ pen.penalty_a >= 0
        /\ pen.penalty_b <= (40 * 4096) - 1
        /\ (pen.a = U64Zero => pen.penalty_a = 0)
        /\ pen.product_b >= 0
        /\ pen.product_b <= S32_MAX

\* two burst times with different penalties, the larger one clamped
C2_Witness ==
    /\ pen.op = "calc"
    /\ pen.penalty_a > 0
    /\ pen.penalty_a < pen.penalty_b
    /\ pen.penalty_b = (40 * 4096) - 1
    /\ pen.b = U64Max

\* the truncated average of burst_penalty over the tasks of ts that are not
\* exiting (all tasks are of the fair class), 0 when there are none
ClaimMembers(ex, ts) == {t \in ts : ~ex[t]}

ClaimAverage(S, ex, ts) ==
    LET m == ClaimMembers(ex, ts)
        part(t) == IF t \in m THEN S[t].burst_penalty ELSE 0
    IN  IF m = {} THEN 0 ELSE (part(1) + part(2) + part(3)) \div Cardinality(m)

\* the tasks a cache aggregates: the owner's children, or the owner's threads
ClaimAggregated(owner, kind) ==
    IF kind = "group" THEN {t \in Tasks : group_leader(t) = owner} ELSE children(owner)

\* prev moved towards curr by ceil(|curr - prev| / count)
SmoothToward(curr, prev, count) ==
    IF curr >= prev THEN prev + CeilDiv(curr - prev, count)
    ELSE prev - CeilDiv(prev - curr, count)

\* this step is a fork with direct inheritance that recomputed the aggregate
ForkDirectRecomputed ==
    /\ last'.op = "fork"
    /\ last'.called
    /\ CLONE_THREAD \notin last'.clone_flags
    /\ last'.recomputed

\* the child's record after such a fork, given the penalty it must start with
ForkedRecord(expected) ==
    LET c == se'[last'.p]
    IN  /\ c.burst_time = U64Zero
        /\ c.curr_burst_penalty = 0
        /\ c.burst_count = 1
        /\ c.prev_burst_penalty = expected
        /\ c.burst_penalty = expected

\* max(A, parent.burst_penalty) of the task whose child cache the fork reads
InheritedDirect ==
    LET owner == CacheOwner(last'.parent, last'.clone_flags)
    IN  Max(ClaimAverage(se, exit_state, children(owner)), se[owner].burst_penalty)

\* C3 as claimed: after a fork with direct inheritance and an expired child
\* cache the child has burst_time = 0, curr_burst_penalty = 0, burst_count = 1
\* and prev_burst_penalty = burst_penalty = max(A, parent.burst_penalty),
\* whatever the child's record held before.
C3_AsClaimed == [][ForkDirectRecomputed => ForkedRecord(InheritedDirect)]_vars

\* C3 amended: the child's own history counts too: prev_burst_penalty =
\* burst_penalty = max(S, A, parent.burst_penalty), S being the child's previous
\* prev_burst_penalty moved towards its curr_burst_penalty by one smoothing step.
C3_ForkInherits ==
    [][ForkDirectRecomputed =>
          ForkedRecord(Max(SmoothToward(se[last'.p].curr_burst_penalty,
                                        se[last'.p].prev_burst_penalty,
                                        se[last'.p].burst_count),
                           InheritedDirect))]_vars

\* a fork that recomputed over two eligible children and left the child with
\* a penalty that is the inherited one
C3_Witness ==
    /\ last.op = "fork"
    /\ last.called
    /\ last.recomputed
    /\ CLONE_THREAD \notin last.clone_flags
    /\ se[CacheOwner(last.parent, last.clone_flags)].child_burst.count = 2
    /\ se[last.p].burst_penalty > 0
    /\ se[last.p].burst_penalty =
           se[CacheOwner(last.parent, last.clone_flags)].child_burst.value

\* this step is a fork that made an inheritance call
ForkCalled == last'.op = "fork" /\ last'.called

\* what an inheritance call does to the cache it reads, given the condition
\* under which it must recompute
CacheCall(mustRecompute) ==
    LET kind == CacheKind(last'.clone_flags)
        owner == CacheOwner(last'.parent, last'.clone_flags)
        before == CacheOf(se, owner, kind)
        after == CacheOf(se', owner, kind)
        agg == ClaimAggregated(owner, kind)
    IN  /\ last'.recomputed <=> mustRecompute
        /\ last'.recomputed =>
               /\ after.timestamp = last'.now
               /\ after.count = Cardinality(ClaimMembers(exit_state, agg))
               /\ after.value = Max(ClaimAverage(se, exit_state, agg),
                                    se[owner].burst_penalty)
               /\ inh'.value = after.value
        /\ ~last'.recomputed =>
               /\ after = before
               /\ inh'.value = before.value

\* now - timestamp of the cache the call reads, modulo 2^64
CacheAge ==
    U64Sub(last'.now,
           CacheOf(se, CacheOwner(last'.parent, last'.clone_flags),
                   CacheKind(last'.clone_flags)).timestamp)

HundredMs == U64(100000000)

\* the call reads the cache the latest inheritance call read
SameCache ==
    /\ inh.kind = CacheKind(last'.clone_flags)
    /\ inh.owner = CacheOwner(last'.parent, last'.clone_flags)

\* C4 as claimed: the call recomputes exactly when the signed age
\* now - timestamp exceeds 100 ms, and otherwise returns the stored value and
\* leaves the cache alone; and two calls on the same parent less than 100 ms
\* apart with no membership change between them return the same value, the
\* second without recomputing.
C4_AsClaimed ==
    [][ForkCalled =>
          /\ CacheCall(S64Less(HundredMs, CacheAge))
          /\ (SameCache /\ ~inh.changed /\ U64Less(U64Sub(last'.now, inh.now), HundredMs))
                 => (inh'.value = inh.value /\ ~last'.recomputed)]_vars

\* C4 amended: the call recomputes exactly when (s64)(timestamp + 100 ms - now)
\* is negative, that is when now - timestamp modulo 2^64 is above 100 ms and
\* at most 2^63 + 100 ms; and a call at most 100 ms after the call that last
\* recomputed the same cache, the cache not reset since, returns that call's
\* value without recomputing.
C4_CacheExpiry ==
    [][ForkCalled =>
          /\ CacheCall(/\ U64Less(HundredMs, CacheAge)
                       /\ U64Leq(CacheAge, U64Add(HundredMs, U64Pow2(63))))
          /\ (/\ SameCache
              /\ inh.recomputed
              /\ CacheOf(se, inh.owner, inh.kind).timestamp = inh.now
              /\ U64Leq(U64Sub(last'.now, inh.now), HundredMs))
                 => (inh'.value = inh.value /\ ~last'.recomputed)]_vars

\* a call that returned a value stored by an earlier recomputation
C4_Witness ==
    /\ last.op = "fork"
    /\ last.called
    /\ ~last.recomputed
    /\ CacheOf(se, inh.owner, inh.kind).timestamp # U64Zero
    /\ inh.value = CacheOf(se, inh.owner, inh.kind).value

\* C5: in a run of equal bursts every restart moves prev_burst_penalty towards
\* curr_burst_penalty by ceil(|diff| / burst_count) without crossing it, the
\* distance never grows, burst_count grows by one up to 40; and eventually
\* prev_burst_penalty equals the constant curr for good, with burst_count 40.
C5_SmoothStep ==
    LET e == se[SmoothTask]
        curr == e.curr_burst_penalty
        dist == AbsDiff(curr, e.prev_burst_penalty)
        dist2 == AbsDiff(curr, se'[SmoothTask].prev_burst_penalty)
    IN  last'.op = "restart" =>
            /\ curr = calc_burst_penalty(sched.target)
            /\ dist2 <= dist
            /\ dist > 0 => (dist2 < dist /\ dist2 = dist - CeilDiv(dist, e.burst_count))
            /\ e.prev_burst_penalty <= curr => se'[SmoothTask].prev_burst_penalty <= curr
            /\ e.prev_burst_penalty >= curr => se'[SmoothTask].prev_burst_penalty >= curr
            /\ se'[SmoothTask].burst_count = Min(40, e.burst_count + 1)

C5_Converged ==
    /\ se[SmoothTask].prev_burst_penalty = calc_burst_penalty(sched.target)
    /\ se[SmoothTask].burst_count = 40

C5_SmoothConverges == [][C5_SmoothStep]_vars /\ <>[]C5_Converged

\* a restart of the second run, the window saturated, prev_burst_penalty a
\* few units away from the constant curr
C5_Witness ==
    /\ sched.mode = "smooth"
    /\ sched.phase = 2
    /\ last.op = "restart"
    /\ se[SmoothTask].burst_count = 40
    /\ se[SmoothTask].prev_burst_penalty # calc_burst_penalty(sched.target)
    /\ AbsDiff(se[SmoothTask].prev_burst_penalty, calc_burst_penalty(sched.target)) < 40

\* burst_penalty >> 12, or 0 for a kernel thread
DerivedScore(S, p) == IF PF_KTHREAD(p) THEN 0 ELSE S[p].burst_penalty \div 4096

\* C10 as claimed: after every operation burst_score is burst_penalty >> 12,
\* and 0 for a kernel thread.
C10_AsClaimed == \A p \in Tasks : se[p].burst_score = DerivedScore(se, p)

\* C10 amended: that holds after Reset, Tick, Restart and
\* RestartWithDeadlineRescale; a fork leaves burst_score as it was.
C10_ScoreDerived ==
    [][/\ last'.op \in {"tick", "restart", "restart_rescale", "reset"}
           => se'[last'.p].burst_score = DerivedScore(se', last'.p)
       /\ last'.op = "fork" => se'[last'.p].burst_score = se[last'.p].burst_score]_vars

\* a restart that left a task that is no kernel thread with a score above 0,
\* the kernel thread holding a penalty and the score 0
C10_Witness ==
    /\ last.op = "restart"
    /\ ~PF_KTHREAD(last.p)
    /\ se[last.p].burst_score > 0
    /\ se[1].burst_penalty > 0
    /\ se[1].burst_score = 0

\* the candidate set: the task's allowed cpus that are active
Candidates(a) == a.cpus_ptr \cap a.active

\* C6 as claimed: with a non-empty candidate set and no fast path the fair
\* selector returns a candidate whose score no candidate exceeds, the lowest
\* cpu among those with that score.
C6_AsClaimed ==
    (last.op = "select_fair" /\ Candidates(last.a) # {} /\ ~last.fast) =>
        /\ last.cpu \in Candidates(last.a)
        /\ \A c \in Candidates(last.a) : last.factor[c] <= last.factor[last.cpu]
        /\ \A c \in Candidates(last.a) :
               last.factor[c] = last.factor[last.cpu] => last.cpu <= c

\* the accumulator of a cpu by the calls issued: its initial value plus the
\* factors added minus the factors removed
Accumulator(c) == ledger.initial[c] + ledger.added[c] - ledger.removed[c]

\* every call issued has been performed
Quiescent == \A t \in Callers : pending[t] = Idle

\* C7: a waking real-time task that is not queued, with two candidates and
\* none removed, is placed on the candidate whose accumulator is strictly
\* lowest, the accumulators being what the AddFactor and SubFactor calls made
\* so far add up to.
C7_RtLowestAccumulator ==
    (/\ last.op = "select_rt"
     /\ Quiescent
     /\ WAKE_TTWU \in last.a.wake_flags
     /\ ~last.a.on_rq
     /\ Cardinality(Candidates(last.a)) = 2
     /\ last.cpus = Candidates(last.a)) =>
        \A c \in Candidates(last.a) :
            (\A d \in Candidates(last.a) \ {c} : Accumulator(c) < Accumulator(d))
                => last.cpu = c

\* cpu 0 at 10 and cpu 1 at 5 at first; cpu 1 was raised to 15 and brought
\* back to 5, and the task is placed on cpu 1 again
C7_Witness ==
    /\ last.op = "select_rt"
    /\ Quiescent
    /\ last.a.cpus_ptr = {0, 1}
    /\ ~last.a.on_rq
    /\ ledger.initial[0] = 10
    /\ ledger.initial[1] = 5
    /\ ledger.added[1] = 10
    /\ ledger.removed[1] = 10
    /\ last.cpu = 1

\* C8: once every call issued has been performed each accumulator is its
\* initial value plus the factors added minus the factors removed, and a
\* call on one cpu's accumulator leaves the other accumulators alone.
C8_BankSums == Quiescent => \A c \in CPUs : bank[c] = Accumulator(c)

C8_OtherCpusUntouched ==
    last'.op \in {"add_factor", "sub_factor"} =>
        \A c \in CPUs \ {last'.cpu} : bank'[c] = bank[c]

C8_NoLostUpdate == []C8_BankSums /\ [][C8_OtherCpusUntouched]_vars

\* two calls on cpu 2 that overlapped, an add and a sub, both performed
C8_Witness ==
    /\ Quiescent
    /\ ledger.overlapped
    /\ ledger.added[2] = 10
    /\ ledger.removed[2] = 10
    /\ bank[2] = 20

\* C9: when no allowed cpu is active both selectors return the lowest allowed
\* cpu, which is inactive, whatever the other inputs are.
C9_EmptyCandidatesFallback ==
    (last.op \in {"select_fair", "select_rt"} /\ Candidates(last.a) = {}) =>
        /\ last.cpu \in last.a.cpus_ptr
        /\ \A c \in last.a.cpus_ptr : last.cpu <= c
        /\ last.cpu \notin last.a.active

\* a fair wakeup with cpus 1 and 2 allowed and cpu 0 alone active, prev_cpu 0
C9_Witness ==
    /\ last.op = "select_fair"
    /\ last.a.cpus_ptr = {1, 2}
    /\ last.a.active = {0}
    /\ last.a.prev_cpu = 0
    /\ WAKE_TTWU \in last.a.wake_flags
    /\ last.cpu = 1

\* this step is a tick whose delta_exec carries burst_time over 2^64
TickWrapped ==
    /\ last'.op = "tick"
    /\ U64Less(U64Add(se[last'.p].burst_time, last'.delta_exec), se[last'.p].burst_time)

\* this step made the burst_penalty of task p smaller
PenaltyDecreased(p) == se'[p].burst_penalty < se[p].burst_penalty

\* C11 as claimed: no tick makes burst_penalty smaller, and it becomes
\* smaller only through Restart, RestartWithDeadlineRescale or Reset.
C11_AsClaimedStep ==
    \A p \in Tasks :
        PenaltyDecreased(p) => last'.op \in {"restart", "restart_rescale", "reset"}

C11_TickStep ==
    \A p \in Tasks :
        PenaltyDecreased(p) =>
            \/ last'.op \in {"restart", "restart_rescale", "reset"} /\ last'.p = p
            \/ last'.op = "fork" /\ last'.p = p
            \/ TickWrapped /\ last'.p = p

BaseScore(a, c) ==
    sss.capacities[c] - a.load[c].cfs - a.load[c].rt - a.load[c].dl
        - (IF (a.on_rq \/ a.is_current) /\ c = a.prev_cpu THEN 0 ELSE a.util_est.util)

\* candidate c may get the wake-affine bias, the SMT bias, the LLC bias
AffineBiased(a, c) ==
    /\ WAKE_TTWU \in a.wake_flags /\ ~a.wake_wide /\ a.this_cpu \in Candidates(a)
    /\ c \in {a.this_cpu, a.prev_cpu}

SmtBiased(a, c) ==
    /\ WAKE_TTWU \in a.wake_flags
    /\ a.wake_wide \/ a.this_cpu \notin Candidates(a)
    /\ c \in host.smt[a.prev_cpu]

SharesLlc(a, c) == host.llc[a.prev_cpu].sd /\ c \in host.llc[a.prev_cpu].span

\* the fair placement just made was not an exec, took no fast path, and c and
\* d are two candidates with the same base score that differ only in that c
\* shares the last level cache with prev_cpu and d does not
LlcPair(c, d) ==
    /\ last.op = "select_fair"
    /\ WAKE_EXEC \notin last.a.wake_flags
    /\ ~last.fast
    /\ c \in Candidates(last.a) /\ d \in Candidates(last.a)
    /\ BaseScore(last.a, c) = BaseScore(last.a, d)
    /\ AffineBiased(last.a, c) = AffineBiased(last.a, d)
    /\ SmtBiased(last.a, c) = SmtBiased(last.a, d)
    /\ SharesLlc(last.a, c) /\ ~SharesLlc(last.a, d)

\* C12 as claimed: of two such candidates the one outside the cache is never
\* the cpu returned, whatever the LLC bias and the common base score.
C12_AsClaimed == \A c \in CPUs, d \in CPUs : LlcPair(c, d) => last.cpu # d

\* C12: of two such candidates the one outside the cache is not returned when
\* the common base score is at least SSS_MARGIN and the LLC bias is at least
\* 1; with a base score below SSS_MARGIN or an LLC bias of 0 the two score
\* the same, and the higher-numbered of them is returned only as prev_cpu,
\* when no candidate scores above 0.
C12_LlcBias ==
    \A c \in CPUs, d \in CPUs :
        LlcPair(c, d) =>
            IF BaseScore(last.a, c) >= SSS_MARGIN /\ sss.llc_bias >= 1
            THEN last.cpu # d
            ELSE /\ last.factor[c] = last.factor[d]
                 /\ last.cpu = Max(c, d) =>
                        /\ last.cpu = last.a.prev_cpu
                        /\ \A x \in Candidates(last.a) : last.factor[x] <= 0

\* cpu 2, in prev_cpu's cache, wins over the lower-numbered cpu 1 outside it
\* after the LLC bias was written
C12_Witness ==
    /\ LlcPair(2, 1)
    /\ BaseScore(last.a, 2) >= SSS_MARGIN
    /\ sss.llc_bias = 1
    /\ last.cpu = 2

\* the candidates of a real-time placement once narrowed to the high
\* performance cpus
Narrowed(a) ==
    IF sss.asymmetric /\ Candidates(a) \cap sss.hp_mask # {}
    THEN Candidates(a) \cap sss.hp_mask
    ELSE Candidates(a)

\* the call is a wakeup or a fork; a real-time task occupies prev_cpu; it has
\* the priority of the waking task or a higher one; it cannot migrate
WakeOrFork(a) == a.wake_flags \cap {WAKE_TTWU, WAKE_FORK} # {}

RtOccupant(a) == a.prev_rq.curr.task /\ a.prev_rq.donor.prio < MAX_RT_PRIO

OccupantOutranks(a) == a.prev_rq.donor.normal_prio <= a.normal_prio

OccupantPinned(a) == a.prev_rq.curr.nr_cpus_allowed < 2

\* a real-time placement was made with prev_cpu among the narrowed candidates
RtPlacedWithPrev ==
    /\ last.op = "select_rt"
    /\ last.a.prev_cpu \in Narrowed(last.a)

\* prev_cpu was removed from the candidates of the placement just made
PrevRemoved == RtPlacedWithPrev /\ last.a.prev_cpu \notin last.cpus

\* C13 as claimed: prev_cpu is removed exactly when the call is a wakeup or a
\* fork, the real-time occupant outranks or equals the task and the occupant
\* cannot migrate; and a removed prev_cpu is never returned.
C13_AsClaimed ==
    /\ RtPlacedWithPrev =>
           (PrevRemoved <=> /\ WakeOrFork(last.a)
                            /\ RtOccupant(last.a)
                            /\ OccupantOutranks(last.a)
                            /\ OccupantPinned(last.a))
    /\ PrevRemoved => last.cpu # last.a.prev_cpu

\* C13: prev_cpu is removed exactly when the call is a wakeup or a fork, a
\* real-time task occupies prev_cpu, and that occupant cannot migrate or has
\* the task's priority or a higher one (either is enough); a removed prev_cpu
\* is not returned when another candidate is left, and is returned when none
\* is left.
C13_PrevDropped ==
    /\ RtPlacedWithPrev =>
           (PrevRemoved <=> /\ WakeOrFork(last.a)
                            /\ RtOccupant(last.a)
                            /\ OccupantOutranks(last.a) \/ OccupantPinned(last.a))
    /\ PrevRemoved =>
           IF Narrowed(last.a) = {last.a.prev_cpu}
           THEN last.cpu = last.a.prev_cpu
           ELSE last.cpu \in Narrowed(last.a) \ {last.a.prev_cpu}

\* prev_cpu 0 is held by a real-time task that may run elsewhere and outranks
\* the waking task: cpu 0 is removed and another cpu is returned
C13_Witness ==
    /\ PrevRemoved
    /\ last.a.prev_cpu = 0
    /\ WAKE_TTWU \in last.a.wake_flags
    /\ ~OccupantPinned(last.a)
    /\ OccupantOutranks(last.a)
    /\ last.cpu # 0

\* C14: a real-time placement on an asymmetric topology with a high
\* performance cpu among the candidates returns a high performance cpu; on a
\* topology that is not asymmetric, or with no high performance candidate,
\* every candidate other than a removed prev_cpu is in the running, the low
\* power ones included.
C14_HighPerformanceFirst ==
    (last.op = "select_rt" /\ Candidates(last.a) # {}) =>
        IF sss.asymmetric /\ Candidates(last.a) \cap sss.hp_mask # {}
        THEN last.cpu \in sss.hp_mask
        ELSE /\ Candidates(last.a) \ {last.a.prev_cpu} \subseteq last.cpus
             /\ last.cpus # {} => last.cpu \in last.cpus

\* the task is queued on the low power cpu 2, whose accumulator is as low as
\* the others', and is moved to a high performance cpu
C14_Witness ==
    /\ last.op = "select_rt"
    /\ sss.asymmetric
    /\ sss.hp_mask = {0, 1}
    /\ Candidates(last.a) = {0, 1, 2}
    /\ last.a.prev_cpu = 2
    /\ last.a.on_rq
    /\ bank = [c \in CPUs |-> 0]
    /\ last.cpu \in {0, 1}

\* the present cpus whose capacity is the lowest of the present cpus
LowestCapacityCpus ==
    {c \in host.present : \A d \in host.present : host.capacity[c] <= host.capacity[d]}

\* C15: after initTopology the high performance set is the present cpus
\* other than those of the lowest capacity (which are the low power set), the
\* capacities recorded are the host's, and the asymmetric flag is set exactly
\* when the low power cpus are no more than the high performance ones.
C15_TopologyPartition ==
    last.op = "sss_init" =>
        /\ sss.hp_mask = host.present \ LowestCapacityCpus
        /\ \A c \in host.present : sss.capacities[c] = host.capacity[c]
        /\ sss.asymmetric <=>
               Cardinality(LowestCapacityCpus) <= Cardinality(sss.hp_mask)
        /\ (\A c \in host.present, d \in host.present :
                host.capacity[c] = host.capacity[d]) => ~sss.asymmetric

\* two big cpus and a little one, the stack holding the big ones on entry
C15_Witness ==
    /\ last.op = "sss_init"
    /\ host.present = {0, 1, 2}
    /\ host.capacity = (0 :> 1024 @@ 1 :> 1024 @@ 2 :> 512)
    /\ wake.stack = {0, 1}
    /\ sss.hp_mask = {0, 1}
    /\ sss.asymmetric

\* the effective priority of task p with a burst score
ClaimedPrio(p, score) == Min(39, (static_prio(p) - MAX_RT_PRIO) + score)

\* C16: a Tick or a Restart of task p loads the weight of the new effective
\* priority when that priority differs from the one before the call, and
\* leaves the applied weight alone when it does not (the re-weight is seen
\* through the weight applied); so a weight that matched the effective
\* priority before the call matches it after. A kernel thread keeps a burst
\* score of 0 and its weight.
C16_Step ==
    \A p \in Tasks :
        (last'.op \in {"tick", "restart", "restart_rescale"} /\ last'.p = p) =>
            LET before == ClaimedPrio(p, se[p].burst_score)
                after == ClaimedPrio(p, se'[p].burst_score)
            IN  /\ se'[p].weight_prio =
                       IF after # before THEN after ELSE se[p].weight_prio
                /\ se[p].weight_prio = before => se'[p].weight_prio = after
                /\ PF_KTHREAD(p) =>
                       /\ se'[p].burst_score = 0
                       /\ se'[p].weight_prio = se[p].weight_prio

C16_ReweightOnChange == [][C16_Step]_vars

\* a tick has raised the burst score of a task that is no kernel thread, and
\* the weight applied is that of its effective priority
C16_Witness ==
    /\ last.op = "tick"
    /\ ~PF_KTHREAD(last.p)
    /\ se[last.p].burst_score > 0
    /\ se[last.p].weight_prio = ClaimedPrio(last.p, se[last.p].burst_score)
    /\ se[last.p].weight_prio > static_prio(last.p) - MAX_RT_PRIO

\* a u64 below 2^31 as an integer
SmallInt(v) == v[1] + (v[2] * LIMB)

\* the magnitude of the signed 64-bit difference a - b, below 2^31
Magnitude(a, b) ==
    IF S64Negative(U64Sub(a, b)) THEN SmallInt(U64Sub(b, a)) ELSE SmallInt(U64Sub(a, b))

\* floor(x * a / b) for a < b, without a product above 2^31
ScaleDown(x, a, b) == ((x \div b) * a) + (((x % b) * a) \div b)

\* C17: RestartWithDeadlineRescale leaves the burst records as Restart
\* would and the vruntime as it was; the deadline changes only when the
\* effective priority value has dropped, and then the remaining delta keeps
\* its sign or becomes zero, and its magnitude is the old one scaled by
\* weight(old priority) / weight(new priority), to within the rounding of
\* the two fixed point multiplications, and is not larger than the old one.
C17_Step ==
    last'.op = "restart_rescale" =>
        LET p == last'.p
            before == ClaimedPrio(p, se[p].burst_score)
            after == ClaimedPrio(p, se'[p].burst_score)
            old == Magnitude(last'.deadline, last'.vruntime)
            new == Magnitude(last'.new_deadline, last'.new_vruntime)
            w_old == sched_prio_to_weight[before + 1]
            w_new == sched_prio_to_weight[after + 1]
        IN  /\ se' = [se EXCEPT ![p] = restart_burst(p, se[p])]
            /\ last'.new_vruntime = last'.vruntime
            /\ last'.new_deadline # last'.deadline => after < before
            /\ after >= before => last'.new_deadline = last'.deadline
            /\ after < before =>
                   /\ \/ new = 0
                      \/ S64Less(last'.new_deadline, last'.new_vruntime)
                             = S64Less(last'.deadline, last'.vruntime)
                   /\ new <= old
                   /\ AbsDiff(new, ScaleDown(old, w_old, w_new))
                          <= (SCHED_CAPACITY_SCALE \div w_new) + 2

C17_RescaleDeadline == [][C17_Step]_vars

\* a deadline that lay behind the vruntime was rescaled when the effective
\* priority dropped from 39 to 29
C17_Witness ==
    /\ last.op = "restart_rescale"
    /\ last.prev_prio = 39
    /\ last.new_prio = 29
    /\ S64Less(last.deadline, last.vruntime)
    /\ last.new_deadline # last.deadline
    /\ S64Less(last.new_deadline, last.vruntime)

\* both caches of task p carry the timestamp 0
CachesInvalidated(S, p) ==
    S[p].child_burst.timestamp = U64Zero /\ S[p].group_burst.timestamp = U64Zero

\* this step is an inheritance call that reads a cache whose timestamp is 0:
\* one that a fork or a reset has invalidated and nothing has rewritten
ReadsInvalidatedCache ==
    /\ last'.op = "fork"
    /\ last'.called
    /\ CacheOf(se, CacheOwner(last'.parent, last'.clone_flags),
               CacheKind(last'.clone_flags)).timestamp = U64Zero

\* C18 as claimed: a fork and a reset leave both caches of the task with the
\* timestamp 0, and an inheritance call that reads a cache with the timestamp
\* 0 recomputes the aggregate, whatever the clock.
C18_AsClaimedStep ==
    /\ (last'.op = "fork" /\ last'.called) => CachesInvalidated(se', last'.p)
    /\ last'.op = "reset" => CachesInvalidated(se', last'.p)
    /\ ReadsInvalidatedCache => last'.recomputed

C18_AsClaimed == [][C18_AsClaimedStep]_vars

\* C19 as claimed: with a non-empty allowed set both selectors return an
\* allowed cpu, whatever prev_cpu, the wake flags, the utilisation and the
\* accumulators are.
C19_AsClaimed ==
    (last.op \in {"select_fair", "select_rt"} /\ last.a.cpus_ptr # {}) =>
        last.cpu \in last.a.cpus_ptr

\* burst_penalty is never below prev_burst_penalty, and equals it right
\* after a reset, a restart or the fork of an eligible task
PenaltyAbovePrev ==
    /\ \A p \in Tasks : se[p].burst_penalty >= se[p].prev_burst_penalty
    /\ (\/ last.op \in {"reset", "restart", "restart_rescale"}
        \/ last.op = "fork" /\ last.called)
           => se[last.p].burst_penalty = se[last.p].prev_burst_penalty

\* C20 as claimed: burst_penalty >= prev_burst_penalty always, with equality
\* right after Reset, Restart and Fork, and no tick lowers curr_burst_penalty.
C20_AsClaimedStep ==
    last'.op = "tick" =>
        se'[last'.p].curr_burst_penalty >= se[last'.p].curr_burst_penalty

C20_AsClaimed == []PenaltyAbovePrev /\ [][C20_AsClaimedStep]_vars

\* C20: burst_penalty >= prev_burst_penalty always, with equality right
\* after Reset, Restart, RestartWithDeadlineRescale and Fork; a tick that does
\* not carry burst_time over 2^64 never lowers curr_burst_penalty, and only a
\* tick changes it within a burst.
C20_BurstStep ==
    /\ (last'.op = "tick" /\ ~TickWrapped) =>
           se'[last'.p].curr_burst_penalty >= se[last'.p].curr_burst_penalty
    /\ \A p \in Tasks :
           se'[p].curr_burst_penalty < se[p].curr_burst_penalty =>
               \/ TickWrapped /\ last'.p = p
               \/ last'.op \in {"reset", "restart", "restart_rescale", "fork"} /\ last'.p = p

C20_PenaltyOrder == []PenaltyAbovePrev /\ [][C20_BurstStep]_vars

\* two ticks of 2^28 ns in the first burst of a task: burst_time is 2^29 ns
\* and the penalty has followed curr_burst_penalty up
C20_Witness ==
    /\ last.op = "tick"
    /\ se[last.p].burst_time = <<0, 8192, 0, 0>>
    /\ se[last.p].prev_burst_penalty = 0
    /\ se[last.p].curr_burst_penalty > 0
    /\ se[last.p].burst_penalty = se[last.p].curr_burst_penalty

============================================================================
